---- MODULE Spec2Model ----
(***************************************************************************)
(* A model of my_ls (src/src/main.rs): the classification of raw directory *)
(* entries into ListingEntry values, the ordering of entries, and main():  *)
(* argument collection, opening the directory, enumeration, sort and the   *)
(* two printing passes.                                                    *)
(*                                                                         *)
(* Text is modelled as sequences of numbers: file names, link targets and  *)
(* arguments are byte strings over ASCII plus the byte 255 (which no UTF-8 *)
(* text contains); icons are sequences of Unicode code points.  An output  *)
(* line is the concatenation println! produces, without its newline.       *)
(***************************************************************************)
EXTENDS Integers, Sequences, FiniteSets

VARIABLES
    argv,       \* the process's raw arguments (program name first)
    pc,         \* position of main(): see the actions
    query,      \* the target path, once chosen (main.rs:259-260)
    rd,         \* outcome of fs::read_dir(query): "none" before the call,
                \* "open" for a directory stream, else the error
    slots,      \* history: the raw items the ReadDir iterator has yielded
    listing,    \* Vec<ListingEntry> (main.rs:269)
    i,          \* index of the running for-loop over &listing
    stdout,     \* lines written to standard output
    emitted,    \* history: for each stdout line, the listing index and pass
    stderr,     \* lines written to standard error
    exit_code,  \* process exit status, -1 while the process runs
    fn_in,      \* function harness: the call to make
    fn_out      \* function harness: the call's result

vars == <<argv, pc, query, rd, slots, listing, i, stdout, emitted, stderr,
          exit_code, fn_in, fn_out>>

mainVars == <<argv, pc, query, rd, slots, listing, i, stdout, emitted, stderr,
              exit_code>>

(***************************************************************************)
(* Bounds                                                                  *)
(***************************************************************************)
MaxEntries == 3     \* most raw slots one directory yields
MaxHigh == 2        \* device ids carry 0..MaxHigh in the bits above bit 15

(***************************************************************************)
(* Text                                                                    *)
(***************************************************************************)
SP == <<32>>                     \* " "
ARROW == <<32, 45, 62, 32>>      \* " -> "
QQQ == <<63, 63, 63>>            \* "???"

\* OsString::into_string / Path::to_str / env::args succeed exactly on valid
\* UTF-8.  Over the modelled alphabet (ASCII and 255) that is: no byte >= 128.
IsUtf8(bytes) == \A k \in DOMAIN bytes : bytes[k] < 128

\* <String as Ord>::cmp: byte-lexicographic, a proper prefix is Less.
RECURSIVE StrCmp(_, _)
StrCmp(s, t) ==
    IF s = <<>> /\ t = <<>> THEN "Equal"
    ELSE IF s = <<>> THEN "Less"
    ELSE IF t = <<>> THEN "Greater"
    ELSE IF Head(s) < Head(t) THEN "Less"
    ELSE IF Head(s) > Head(t) THEN "Greater"
    ELSE StrCmp(Tail(s), Tail(t))

(***************************************************************************)
(* Icons (main.rs:7-19), as code points                                    *)
(***************************************************************************)
VS15 == <<65038>>                           \* U+FE0E, text-style selector
ICON_ERROR == <<10067, 65038>>
ICON_FILE == <<128462, 65038, 32>>
ICON_DIRECTORY == <<128193, 65038>>
ICON_SYMLINK == <<128279, 65038>>
ICON_SOCKET == <<128268, 65038>>
ICON_PIPE == <<128688, 65038>>
ICON_CHAR_DEVICE == <<128424, 65038>>
ICON_BLOCK_DEVICE == <<128191, 65038>>
ICON_DISK == <<128468, 65038>>
ICON_DEV_NULL == <<128701, 65038>>
ICON_TTY == <<128187, 65038>>

(***************************************************************************)
(* ListingEntry (main.rs:22-60) and its constructors                       *)
(***************************************************************************)
get_name(e) == e.name

get_icon(e) == e.icon

is_directory(e) == e.variant = "Directory"

new_regular(name) == [variant |-> "Regular", name |-> name, icon |-> ICON_FILE]

new_dir(name) == [variant |-> "Directory", name |-> name, icon |-> ICON_DIRECTORY]

new_symlink(name, target) ==
    [variant |-> "Symlink", name |-> name, target |-> target, icon |-> ICON_SYMLINK]

new_unknown_placeholder(name) ==
    [variant |-> "Unknown", name |-> QQQ, icon |-> ICON_ERROR]

new_unknown(name) == [variant |-> "Unknown", name |-> name, icon |-> ICON_ERROR]

new_pipe_as_socket(name) ==
    [variant |-> "Socket", name |-> name, icon |-> ICON_SOCKET]

new_pipe(name) == [variant |-> "Pipe", name |-> name, icon |-> ICON_PIPE]

\* (dev_id & 0xff00) >> 8 and dev_id & 0xff on a u64
dev_major_unmasked(dev_id) == dev_id \div 256

dev_major(dev_id) == (dev_id \div 256) % 256

dev_minor(dev_id) == dev_id % 256

char_device_icon(dev_id) ==
    IF dev_major(dev_id) = 1 /\ dev_minor(dev_id) = 3 THEN ICON_DEV_NULL
    ELSE IF dev_major(dev_id) = 4 THEN ICON_TTY
    ELSE IF dev_major(dev_id) = 5
            /\ (dev_minor(dev_id) = 0 \/ dev_minor(dev_id) = 1) THEN ICON_TTY
    ELSE IF dev_major(dev_id) = 241 THEN ICON_DISK
    ELSE ICON_CHAR_DEVICE

new_char_device(name, dev_id) ==
    [variant |-> "CharDevice", name |-> name, dev_id |-> dev_id,
     icon |-> char_device_icon(dev_id)]

new_block_device(name, dev_id) ==
    [variant |-> "BlockDevice", name |-> name, dev_id |-> dev_id,
     icon |-> ICON_BLOCK_DEVICE]

new_socket(name) == [variant |-> "Socket", name |-> name, icon |-> ICON_SOCKET]

\* #[derive(PartialEq, Eq)]: same variant and every field of it equal
derived_eq(a, b) ==
    /\ a.variant = b.variant
    /\ a.name = b.name
    /\ a.icon = b.icon
    /\ (a.variant = "Symlink" => a.target = b.target)
    /\ (a.variant \in {"CharDevice", "BlockDevice"} => a.dev_id = b.dev_id)

\* impl Ord for ListingEntry
cmp_reversed(a, b) == StrCmp(get_name(b), get_name(a))

cmp(a, b) == StrCmp(get_name(a), get_name(b))

\* impl PartialOrd for ListingEntry: Some(ordering), never None
partial_cmp(a, b) == StrCmp(get_name(a), get_name(b))

(***************************************************************************)
(* Raw directory entries.  A dentry carries what each filesystem probe on  *)
(* it would answer: file_name(), file_type(), fs::read_link(path()) and    *)
(* metadata().  Which probes are made is decided by from_dentry.           *)
(***************************************************************************)
FileTypes == {"dir", "symlink", "fifo", "char", "block", "socket", "file", "other"}

is_dir(ft) == ft = "dir"

is_symlink(ft) == ft = "symlink"

is_fifo(ft) == ft = "fifo"

is_char_device(ft) == ft = "char"

is_block_device(ft) == ft = "block"

is_socket(ft) == ft = "socket"

\* fs::read_link + Path::to_str, main.rs:196-209
symlink_target_lossy(dentry) ==
    IF ~dentry.read_link.ok THEN QQQ ELSE dentry.read_link.path

symlink_target(dentry) ==
    IF ~dentry.read_link.ok THEN QQQ
    ELSE IF IsUtf8(dentry.read_link.path) THEN dentry.read_link.path
    ELSE QQQ

\* dentry.metadata() + rdev(), main.rs:215-221 and 225-230
device_id(dentry) ==
    IF ~dentry.metadata.ok THEN 0 ELSE dentry.metadata.rdev

\* from_dentry with the probes it made, in order
from_dentry_run(dentry) ==
    IF ~IsUtf8(dentry.file_name)
    THEN [ret |-> new_unknown(QQQ), calls |-> <<"file_name">>]
    ELSE LET name == dentry.file_name IN
    IF ~dentry.file_type.ok
    THEN [ret |-> new_unknown(name), calls |-> <<"file_name", "file_type">>]
    ELSE LET ft == dentry.file_type.ft IN
    IF is_dir(ft)
    THEN [ret |-> new_dir(name), calls |-> <<"file_name", "file_type">>]
    ELSE IF is_symlink(ft)
    THEN [ret |-> new_symlink(name, symlink_target(dentry)),
          calls |-> <<"file_name", "file_type", "read_link">>]
    ELSE IF is_fifo(ft)
    THEN [ret |-> new_pipe(name), calls |-> <<"file_name", "file_type">>]
    ELSE IF is_char_device(ft)
    THEN [ret |-> new_char_device(name, device_id(dentry)),
          calls |-> <<"file_name", "file_type", "metadata">>]
    ELSE IF is_block_device(ft)
    THEN [ret |-> new_block_device(name, device_id(dentry)),
          calls |-> <<"file_name", "file_type", "metadata">>]
    ELSE IF is_socket(ft)
    THEN [ret |-> new_socket(name), calls |-> <<"file_name", "file_type">>]
    ELSE [ret |-> new_regular(name), calls |-> <<"file_name", "file_type">>]

from_dentry(dentry) == from_dentry_run(dentry).ret

(***************************************************************************)
(* The pieces of main()                                                    *)
(***************************************************************************)
\* the body of `for d in rd`, main.rs:271-278
slot_entry(d) ==
    IF d.ok THEN from_dentry(d.dentry) ELSE new_unknown(QQQ)

\* Vec::sort (main.rs:281): stable, ordered by Ord::cmp
insert(sorted, e) ==
    LET p == Cardinality({j \in DOMAIN sorted : cmp(sorted[j], e) # "Greater"})
    IN  SubSeq(sorted, 1, p) \o <<e>> \o SubSeq(sorted, p + 1, Len(sorted))

RECURSIVE sort(_)
sort(v) ==
    IF v = <<>> THEN <<>>
    ELSE insert(sort(SubSeq(v, 1, Len(v) - 1)), v[Len(v)])

\* println!("{} {}", icon, name)
plain_line(icon, name) == icon \o SP \o name

\* println!("{} {} -> {}", icon, name, target)
symlink_line_no_target(icon, name, target) == icon \o SP \o name

symlink_line(icon, name, target) == icon \o SP \o name \o ARROW \o target

\* the match of pass 2, main.rs:292-300
pass2_prints_all(l) == TRUE

pass2_prints(l) == l.variant # "Directory"

pass2_line(l) ==
    IF l.variant = "Symlink" THEN symlink_line(l.icon, l.name, l.target)
    ELSE plain_line(get_icon(l), get_name(l))

\* eprintln!("Could not open '{query}': {err}")
could_not_open(q, err) == <<"Could not open '", q, "': ", err>>

(***************************************************************************)
(* The environment: arguments, the outcome of read_dir, the raw slots      *)
(***************************************************************************)
PROG == <<109>>                  \* "m"
DOT == <<46>>                    \* "."
Argvs == {<<PROG>>, <<PROG, <<100>>, <<120>> >>, <<PROG, <<100, 255>> >>}

OpenErrors == {"NotFound", "NotADirectory", "PermissionDenied"}

Ok(ft) == [ok |-> TRUE, ft |-> ft]

Err == [ok |-> FALSE]

Dentry(name, file_type, read_link, metadata) ==
    [file_name |-> name, file_type |-> file_type, read_link |-> read_link,
     metadata |-> metadata]

LinkResults == {Err, [ok |-> TRUE, path |-> <<116>>],
                [ok |-> TRUE, path |-> <<116, 255>>]}

\* directories the run is checked on: entries have distinct raw names
RunNames == {QQQ, <<66>>, <<97>>, <<97, 98>>, <<97, 255>>}

RunTypes == {Ok("dir"), Ok("file"), Ok("symlink"), Ok("char")}

RunSlots ==
    {[ok |-> FALSE]} \cup
    {[ok |-> TRUE, dentry |-> Dentry(n, t, [ok |-> TRUE, path |-> <<116>>],
                                   [ok |-> TRUE, rdev |-> 259])] :
        n \in RunNames, t \in RunTypes}

NoCall == [op |-> "none"]

NoResult == [done |-> FALSE]

(***************************************************************************)
(* main(), main.rs:255-304                                                 *)
(***************************************************************************)
Init ==
    /\ argv \in Argvs
    /\ pc = "start"
    /\ query = <<>>
    /\ rd = "none"
    /\ slots = <<>>
    /\ listing = <<>>
    /\ i = 0
    /\ stdout = <<>>
    /\ emitted = <<>>
    /\ stderr = <<>>
    /\ exit_code = -1
    /\ fn_in = NoCall
    /\ fn_out = NoResult

\* a panic reports on stderr and unwinds main: the process ends with
\* status 101
Panic(msg) ==
    /\ stderr' = Append(stderr, <<"thread 'main' panicked: ", msg>>)
    /\ pc' = "panicked"
    /\ exit_code' = 101

\* env::args().collect() (main.rs:256) panics on an argument that is not
\* valid Unicode
CollectArgs ==
    /\ pc = "start"
    /\ IF \E k \in DOMAIN argv : ~IsUtf8(argv[k])
       THEN Panic("invalid unicode in argument")
       ELSE pc' = "open" /\ UNCHANGED <<stderr, exit_code>>
    /\ UNCHANGED <<argv, query, rd, slots, listing, i, stdout, emitted,
                   fn_in, fn_out>>

\* the unwrap_or_else closure, main.rs:263-266
OpenFailedNoExit(err) ==
    /\ rd' = err
    /\ stderr' = Append(stderr, could_not_open(query', err))
    /\ pc' = "enum"
    /\ UNCHANGED exit_code

OpenFailed(err) ==
    /\ rd' = err
    /\ stderr' = Append(stderr, could_not_open(query', err))
    /\ pc' = "exited"
    /\ exit_code' = 1

\* main.rs:259-266
OpenDir ==
    /\ pc = "open"
    /\ query' = IF Len(argv) > 1 THEN argv[2] ELSE DOT
    /\ \/ rd' = "open" /\ pc' = "enum" /\ UNCHANGED <<stderr, exit_code>>
       \/ \E err \in OpenErrors : OpenFailed(err)
    /\ UNCHANGED <<argv, slots, listing, i, stdout, emitted, fn_in, fn_out>>

\* one iteration of `for d in rd`, main.rs:270-279
ReadEntry ==
    /\ pc = "enum"
    /\ Len(slots) < MaxEntries
    /\ \E d \in RunSlots :
        /\ d.ok => \A k \in DOMAIN slots :
                      slots[k].ok => slots[k].dentry.file_name # d.dentry.file_name
        /\ slots' = Append(slots, d)
        /\ listing' = Append(listing, slot_entry(d))
    /\ UNCHANGED <<argv, pc, query, rd, i, stdout, emitted, stderr, exit_code,
                   fn_in, fn_out>>

\* the iterator is exhausted; listing.sort(), main.rs:281
SortListing ==
    /\ pc = "enum"
    /\ listing' = sort(listing)
    /\ pc' = "pass1"
    /\ i' = 1
    /\ UNCHANGED <<argv, query, rd, slots, stdout, emitted, stderr, exit_code,
                   fn_in, fn_out>>

\* println! writes one line to the line-buffered stdout, and panics when the
\* write fails
Println(line, pass) ==
    \/ /\ stdout' = Append(stdout, line)
       /\ emitted' = Append(emitted, [idx |-> i, pass |-> pass])
       /\ i' = i + 1
       /\ UNCHANGED <<pc, stderr, exit_code>>
    \/ /\ Panic("failed printing to stdout")
       /\ UNCHANGED <<stdout, emitted, i>>

\* main.rs:284-288
Pass1Print ==
    /\ pc = "pass1"
    /\ i <= Len(listing)
    /\ is_directory(listing[i])
    /\ Println(plain_line(get_icon(listing[i]), get_name(listing[i])), 1)
    /\ UNCHANGED <<argv, query, rd, slots, listing, fn_in, fn_out>>

Pass1Skip ==
    /\ pc = "pass1"
    /\ i <= Len(listing)
    /\ ~is_directory(listing[i])
    /\ i' = i + 1
    /\ UNCHANGED <<argv, pc, query, rd, slots, listing, stdout, emitted, stderr,
                   exit_code, fn_in, fn_out>>

Pass1End ==
    /\ pc = "pass1"
    /\ i > Len(listing)
    /\ pc' = "pass2"
    /\ i' = 1
    /\ UNCHANGED <<argv, query, rd, slots, listing, stdout, emitted, stderr,
                   exit_code, fn_in, fn_out>>

\* main.rs:291-301
Pass2Print ==
    /\ pc = "pass2"
    /\ i <= Len(listing)
    /\ pass2_prints(listing[i])
    /\ Println(pass2_line(listing[i]), 2)
    /\ UNCHANGED <<argv, query, rd, slots, listing, fn_in, fn_out>>

Pass2Skip ==
    /\ pc = "pass2"
    /\ i <= Len(listing)
    /\ ~pass2_prints(listing[i])
    /\ i' = i + 1
    /\ UNCHANGED <<argv, pc, query, rd, slots, listing, stdout, emitted, stderr,
                   exit_code, fn_in, fn_out>>

\* Ok(()), main.rs:303
Return ==
    /\ pc = "pass2"
    /\ i > Len(listing)
    /\ pc' = "done"
    /\ exit_code' = 0
    /\ UNCHANGED <<argv, query, rd, slots, listing, i, stdout, emitted, stderr,
                   fn_in, fn_out>>

Next ==
    \/ CollectArgs
    \/ OpenDir
    \/ ReadEntry
    \/ SortListing
    \/ Pass1Print
    \/ Pass1Skip
    \/ Pass1End
    \/ Pass2Print
    \/ Pass2Skip
    \/ Return

Spec == Init /\ [][Next]_vars

(***************************************************************************)
(* Function harness: one call of from_dentry or of new_char_device on an   *)
(* input drawn from a bounded set.                                         *)
(***************************************************************************)
FnNames == {<<97>>, QQQ, <<97, 255>>}

Majors == {0, 1, 2, 4, 5, 6, 241, 255}

Minors == {0, 1, 2, 3, 4, 255}

MetaResults ==
    {Err} \cup {[ok |-> TRUE, rdev |-> r] : r \in {0, 259, 1024, 65795}}

FnInputs ==
    {[op |-> "from_dentry", dentry |-> Dentry(n, t, l, m)] :
        n \in FnNames, t \in {Err} \cup {Ok(ft) : ft \in FileTypes},
        l \in LinkResults, m \in MetaResults}
    \cup
    {[op |-> "new_char_device", name |-> <<97>>, high |-> h, major |-> ma,
      minor |-> mi] : h \in 0..MaxHigh, ma \in Majors, mi \in Minors}

\* the device id with `minor` in bits 0-7, `major` in bits 8-15, `high` above
DeviceId(high, major, minor) == high * 65536 + major * 256 + minor

InitFn ==
    /\ argv = <<>>
    /\ pc = "idle"
    /\ query = <<>>
    /\ rd = "none"
    /\ slots = <<>>
    /\ listing = <<>>
    /\ i = 0
    /\ stdout = <<>>
    /\ emitted = <<>>
    /\ stderr = <<>>
    /\ exit_code = -1
    /\ fn_in \in FnInputs
    /\ fn_out = NoResult

CallFromDentry ==
    /\ fn_in.op = "from_dentry"
    /\ ~fn_out.done
    /\ fn_out' = [done |-> TRUE,
                  ret |-> from_dentry(fn_in.dentry),
                  calls |-> from_dentry_run(fn_in.dentry).calls]
    /\ UNCHANGED <<mainVars, fn_in>>

CallNewCharDevice ==
    /\ fn_in.op = "new_char_device"
    /\ ~fn_out.done
    /\ fn_out' = [done |-> TRUE,
                  ret |-> new_char_device(fn_in.name,
                            DeviceId(fn_in.high, fn_in.major, fn_in.minor))]
    /\ UNCHANGED <<mainVars, fn_in>>

NextFn ==
    \/ CallFromDentry
    \/ CallNewCharDevice

SpecFn == InitFn /\ [][NextFn]_vars

(***************************************************************************)
(* Claims about the classifier, checked under SpecFn                       *)
(***************************************************************************)
Classified == fn_in.op = "from_dentry" /\ fn_out.done

NameDecodes == IsUtf8(fn_in.dentry.file_name)

TypeKnown == fn_in.dentry.file_type.ok

Occurrences(calls, c) == Cardinality({k \in DOMAIN calls : calls[k] = c})

\* the icon the device table gives for a (major, minor) pair
TableIcon(major, minor) ==
    CASE major = 1 /\ minor = 3 -> ICON_DEV_NULL
      [] major = 4 -> ICON_TTY
      [] major = 5 /\ minor \in {0, 1} -> ICON_TTY
      [] major = 241 -> ICON_DISK
      [] OTHER -> ICON_CHAR_DEVICE

\* C3: new_char_device picks the icon from bits 8-15 (major) and bits 0-7
\* (minor) of device_id alone, whatever the higher bits hold: (1,3) gives the
\* null-device icon, major 4 the terminal icon, (5,0) and (5,1) the terminal
\* icon, major 241 the disk icon, everything else the generic icon; the
\* entry is a CharDevice that keeps the whole device_id.
C3_DeviceIconTable ==
    (fn_in.op = "new_char_device" /\ fn_out.done) =>
        /\ fn_out.ret.variant = "CharDevice"
        /\ fn_out.ret.icon = TableIcon(fn_in.major, fn_in.minor)
        /\ fn_out.ret.dev_id = DeviceId(fn_in.high, fn_in.major, fn_in.minor)
        /\ (DeviceId(fn_in.high, fn_in.major, fn_in.minor) = 259
               => fn_out.ret.icon = ICON_DEV_NULL)

C3_Witness ==
    /\ fn_in.op = "new_char_device"
    /\ fn_out.done
    /\ fn_in.high > 0
    /\ fn_in.major = 1
    /\ fn_in.minor = 3
    /\ fn_out.ret.icon = ICON_DEV_NULL

\* the variant the precedence list gives for an on-disk type
TableVariant(ft) ==
    CASE ft = "dir" -> "Directory"
      [] ft = "symlink" -> "Symlink"
      [] ft = "fifo" -> "Pipe"
      [] ft = "char" -> "CharDevice"
      [] ft = "block" -> "BlockDevice"
      [] ft = "socket" -> "Socket"
      [] OTHER -> "Regular"

WellFormedEntry(e) ==
    /\ e.variant \in {"Unknown", "Regular", "Directory", "Symlink", "Pipe",
                      "Socket", "CharDevice", "BlockDevice"}
    /\ DOMAIN e = CASE e.variant = "Symlink" -> {"variant", "name", "icon", "target"}
                    [] e.variant \in {"CharDevice", "BlockDevice"} ->
                           {"variant", "name", "icon", "dev_id"}
                    [] OTHER -> {"variant", "name", "icon"}
    /\ IsUtf8(e.name)

\* C4: from_dentry returns one well-formed ListingEntry for every combination
\* of probe outcomes; when the name decodes and the type query succeeds the
\* variant is the one the precedence list gives for the on-disk type and the
\* entry's name is the decoded name.
C4_ClassifyTotal ==
    Classified =>
        /\ WellFormedEntry(fn_out.ret)
        /\ (NameDecodes /\ TypeKnown) =>
              /\ fn_out.ret.variant = TableVariant(fn_in.dentry.file_type.ft)
              /\ fn_out.ret.name = fn_in.dentry.file_name

C4_Witness ==
    /\ Classified
    /\ NameDecodes
    /\ TypeKnown
    /\ fn_in.dentry.file_type.ft = "fifo"
    /\ ~fn_in.dentry.metadata.ok
    /\ fn_out.ret.variant = "Pipe"

\* C5: from_dentry returns Unknown exactly when the name decode or the type
\* query fails; an undecodable name gives Unknown("???") after the name probe
\* alone; a decoded name with a failed type query gives Unknown(name).
C5_UnknownIffProbeFails ==
    Classified =>
        /\ (fn_out.ret.variant = "Unknown") <=> (~NameDecodes \/ ~TypeKnown)
        /\ ~NameDecodes =>
              /\ fn_out.ret = [variant |-> "Unknown", name |-> QQQ, icon |-> ICON_ERROR]
              /\ fn_out.calls = <<"file_name">>
        /\ (NameDecodes /\ ~TypeKnown) =>
              fn_out.ret = [variant |-> "Unknown", name |-> fn_in.dentry.file_name,
                            icon |-> ICON_ERROR]

C5_Witness ==
    /\ Classified
    /\ NameDecodes
    /\ fn_in.dentry.file_name # QQQ
    /\ ~TypeKnown
    /\ fn_out.ret.variant = "Unknown"
    /\ fn_out.ret.name = fn_in.dentry.file_name

\* C10: a failed secondary probe keeps the variant: a symbolic link whose
\* link read fails or whose target is not text is Symlink with target "???"
\* (no metadata probe is made for it); a character or block device whose
\* metadata read fails is CharDevice resp. BlockDevice with device_id 0, the
\* CharDevice with the generic icon; no probe is made twice for one entry.
C10_SecondaryProbeFailure ==
    (Classified /\ NameDecodes /\ TypeKnown) =>
        LET d == fn_in.dentry
            ft == d.file_type.ft
            e == fn_out.ret
        IN  /\ ft = "symlink" =>
                  /\ e.variant = "Symlink"
                  /\ (~d.read_link.ok \/ ~IsUtf8(d.read_link.path)) => e.target = QQQ
                  /\ Occurrences(fn_out.calls, "metadata") = 0
            /\ (ft = "char" /\ ~d.metadata.ok) =>
                  /\ e.variant = "CharDevice"
                  /\ e.dev_id = 0
                  /\ e.icon = ICON_CHAR_DEVICE
            /\ (ft = "block" /\ ~d.metadata.ok) =>
                  /\ e.variant = "BlockDevice"
                  /\ e.dev_id = 0
            /\ \A c \in {"file_name", "file_type", "read_link", "metadata"} :
                  Occurrences(fn_out.calls, c) <= 1

C10_Witness ==
    /\ Classified
    /\ NameDecodes
    /\ TypeKnown
    /\ fn_in.dentry.file_type.ft = "symlink"
    /\ fn_in.dentry.read_link.ok
    /\ ~IsUtf8(fn_in.dentry.read_link.path)
    /\ fn_out.ret.variant = "Symlink"
    /\ fn_out.ret.target = QQQ

(***************************************************************************)
(* Claims about the run of main(), checked under Spec                      *)
(***************************************************************************)
Finished == pc = "done"

\* the entry printed on stdout line j
Printed(j) == listing[emitted[j].idx]

LinesOf(k) == {j \in DOMAIN emitted : emitted[j].idx = k}

Count(seq, e) == Cardinality({k \in DOMAIN seq : seq[k] = e})

\* what a raw slot is to become
Expected(d) ==
    IF d.ok THEN from_dentry(d.dentry)
    ELSE [variant |-> "Unknown", name |-> QQQ, icon |-> ICON_ERROR]

\* byte-lexicographic s <= t
LexLeq(s, t) ==
    \/ Len(s) <= Len(t) /\ \A n \in 1..Len(s) : s[n] = t[n]
    \/ \E n \in 1..Len(s) :
          /\ n <= Len(t)
          /\ s[n] < t[n]
          /\ \A m \in 1..(n - 1) : s[m] = t[m]

\* C1: a run that returns from main has printed exactly one line per raw
\* slot: the listing holds one entry per slot (an enumeration error as
\* Unknown("???")), the same multiset as the slots' classifications, and
\* every entry has exactly one line, of pass 1 if it is a Directory and of
\* pass 2 otherwise; at no time has an entry more than one line.
C1_EntryCountPreserved ==
    /\ \A k \in DOMAIN listing : Cardinality(LinesOf(k)) <= 1
    /\ Finished =>
          /\ Len(listing) = Len(slots)
          /\ Len(stdout) = Len(slots)
          /\ \A k \in DOMAIN slots :
                Count(listing, Expected(slots[k]))
                    = Cardinality({m \in DOMAIN slots :
                                      Expected(slots[m]) = Expected(slots[k])})
          /\ \A k \in DOMAIN listing :
                /\ Cardinality(LinesOf(k)) = 1
                /\ \A j \in LinesOf(k) :
                      emitted[j].pass = IF listing[k].variant = "Directory" THEN 1 ELSE 2

C1_Witness ==
    /\ Finished
    /\ Len(slots) = MaxEntries
    /\ \E k \in DOMAIN slots : ~slots[k].ok
    /\ \E k \in DOMAIN listing : listing[k].variant = "Directory"
    /\ \E k \in DOMAIN listing : listing[k].variant = "Symlink"
    /\ Len(stdout) = MaxEntries

\* C2: on stdout no Directory line follows a non-Directory line, and two
\* lines of the same block appear in ascending byte-lexicographic (so
\* case-sensitive) order of name.
C2_DirectoriesFirstSorted ==
    \A j, k \in DOMAIN emitted :
        j < k =>
            /\ ~(Printed(j).variant # "Directory" /\ Printed(k).variant = "Directory")
            /\ (Printed(j).variant = "Directory") = (Printed(k).variant = "Directory")
                  => LexLeq(Printed(j).name, Printed(k).name)

C2_Witness ==
    /\ Finished
    /\ Len(emitted) = 3
    /\ Printed(1).variant = "Directory" /\ Printed(1).name = <<97, 98>>
    /\ Printed(2).variant # "Directory" /\ Printed(2).name = <<66>>
    /\ Printed(3).variant # "Directory" /\ Printed(3).name = <<97>>

\* C7: the line of a Symlink entry named M with target T is a pass-2 line
\* "<symlink icon> M -> T"; the line of any other entry ends with its name
\* (icon, space, name: nothing is appended); a finished run has exactly one
\* line for each Symlink entry.
C7_SymlinkLine ==
    /\ \A j \in DOMAIN emitted :
          IF Printed(j).variant = "Symlink"
          THEN /\ emitted[j].pass = 2
               /\ stdout[j] = ICON_SYMLINK \o SP \o Printed(j).name \o ARROW
                                  \o Printed(j).target
          ELSE stdout[j] = Printed(j).icon \o SP \o Printed(j).name
    /\ Finished =>
          \A k \in DOMAIN listing :
              listing[k].variant = "Symlink" => Cardinality(LinesOf(k)) = 1

C7_Witness ==
    /\ Finished
    /\ \E j \in DOMAIN emitted :
          /\ Printed(j).variant = "Symlink"
          /\ Printed(j).target = <<116>>
          /\ stdout[j] = ICON_SYMLINK \o <<32, 97, 98, 32, 45, 62, 32, 116>>
    /\ \E j \in DOMAIN emitted : Printed(j).variant = "Regular"

\* the run ended on the failure to open the directory
OpenFailure == rd \in OpenErrors

\* what holds of a run whose read_dir failed
FailedOpenOutcome ==
    OpenFailure =>
        /\ pc = "exited"
        /\ exit_code = 1
        /\ stderr = << <<"Could not open '", query, "': ", rd>> >>
        /\ stdout = <<>>
        /\ slots = <<>>
        /\ listing = <<>>

C6_EqAndOrdByNameOnly ==
    \A j, k \in DOMAIN listing :
        /\ derived_eq(listing[j], listing[k]) <=> (listing[j].name = listing[k].name)
        /\ cmp(listing[j], listing[k]) = StrCmp(listing[j].name, listing[k].name)
        /\ (cmp(listing[j], listing[k]) = "Equal")
              <=> derived_eq(listing[j], listing[k])

\* C9 as stated: the line of every non-Symlink entry is the entry's icon,
\* which ends in U+FE0E, then exactly one space, then the name.
C9_GlyphSpaceName ==
    \A j \in DOMAIN emitted :
        Printed(j).variant # "Symlink" =>
            /\ Printed(j).icon[Len(Printed(j).icon)] = VS15[1]
            /\ stdout[j] = Printed(j).icon \o SP \o Printed(j).name

====
